---- MODULE Spec2Model ----
(***************************************************************************)
(* Model of resources/python/account_ids.py: resolution of an AWS          *)
(* organization into account ids per deployment target, and the planner    *)
(* (deploy_targets / main) that drives one pass per terraform module.      *)
(*                                                                         *)
(* A Python dict is modelled as a sequence of <<key, value>> pairs with    *)
(* distinct keys (dicts keep insertion order); a Python list as a          *)
(* sequence; an account as a record [Name, Id].                            *)
(***************************************************************************)
EXTENDS Integers, Sequences, FiniteSets, TLC

\* ------------------------------------------------------------------ bounds
MaxOUs == 2        \* OU entries of an input tree
MaxAccts == 2      \* accounts of an input tree
MaxReq == 2        \* length of a requested list (paths, names, exclusions)

\* ------------------------------------------------------- program constants
NAME_OF_OU_ROOT == "root"

\* --------------------------------------------------------------- input pools
OUPaths == {"root", "Workloads", "Workloads/Dev"}
AcctNames == {"Audit", "TestWorkload"}
AcctIds == <<"111111111111", "222222222222", "333333333333", "444444444444">>
NoneValue == "None"

\* ------------------------------------------------------------ list helpers
Range(s) == {s[i] : i \in 1..Len(s)}

SeqsUpTo(S, n) == UNION {[1..k -> S] : k \in 0..n}

RECURSIVE ListRemove(_, _)
\* list.remove(x): drops the first occurrence of x
ListRemove(s, x) ==
    IF s = <<>> THEN <<>>
    ELSE IF Head(s) = x THEN Tail(s)
    ELSE <<Head(s)>> \o ListRemove(Tail(s), x)

\* ------------------------------------------------------------ dict helpers
DictKeys(d) == {d[i][1] : i \in 1..Len(d)}

DictHas(d, k) == k \in DictKeys(d)

\* dict.get(k): the value, or None when the key is absent
DictGet(d, k) ==
    IF DictHas(d, k)
    THEN d[CHOOSE i \in 1..Len(d) : d[i][1] = k][2]
    ELSE NoneValue

\* d[k] = v: replaces in place, or appends a new key
DictSet(d, k, v) ==
    IF DictHas(d, k)
    THEN [i \in 1..Len(d) |-> IF d[i][1] = k THEN <<k, v>> ELSE d[i]]
    ELSE Append(d, <<k, v>>)

RECURSIVE DictUpdate(_, _)
\* d.update(e)
DictUpdate(d, e) ==
    IF e = <<>> THEN d
    ELSE DictUpdate(DictSet(d, Head(e)[1], Head(e)[2]), Tail(e))

\* dict equality ignores order: the set of items
DictItems(d) == Range(d)

\* -------------------------------------------------------- AccountResolver
\* filter_excluded_accounts using only the account name (ignores the OU key)
filter_excluded_accounts_NameOnly(org_account_list, excluded_accounts) ==
    [i \in 1..Len(org_account_list) |->
        <<org_account_list[i][1],
          SelectSeq(org_account_list[i][2],
                    LAMBDA acc : acc.Name \notin Range(excluded_accounts))>>]

RECURSIVE DropFirstExcluded(_, _)
DropFirstExcluded(accts, excl) ==
    IF accts = <<>> THEN <<>>
    ELSE IF Head(accts).Name \in excl THEN Tail(accts)
    ELSE <<Head(accts)>> \o DropFirstExcluded(Tail(accts), excl)

\* filter_excluded_accounts dropping one excluded account per OU list
filter_excluded_accounts_DropOne(org_account_list, excluded_accounts) ==
    [i \in 1..Len(org_account_list) |->
        <<org_account_list[i][1],
          IF org_account_list[i][1] \in Range(excluded_accounts)
          THEN <<>>
          ELSE DropFirstExcluded(org_account_list[i][2], Range(excluded_accounts))>>]

\* The dict is rebuilt key by key IN PLACE: the value returned is the new
\* content of the very object passed as org_account_list.
filter_excluded_accounts(org_account_list, excluded_accounts) ==
    [i \in 1..Len(org_account_list) |->
        <<org_account_list[i][1],
          SelectSeq(org_account_list[i][2],
                    LAMBDA acc : ~(org_account_list[i][1] \in Range(excluded_accounts)
                                   \/ acc.Name \in Range(excluded_accounts)))>>]

RECURSIVE AddAccounts(_, _)
\* the inner loop of account_ids_from_ou: accounts[Name] = Id
AddAccounts(accounts, account_list) ==
    IF account_list = <<>> THEN accounts
    ELSE AddAccounts(DictSet(accounts, Head(account_list).Name, Head(account_list).Id),
                     Tail(account_list))

RECURSIVE AddAccountsKeepFirst(_, _)
AddAccountsKeepFirst(accounts, account_list) ==
    IF account_list = <<>> THEN accounts
    ELSE AddAccountsKeepFirst(
             IF DictHas(accounts, Head(account_list).Name) THEN accounts
             ELSE DictSet(accounts, Head(account_list).Name, Head(account_list).Id),
             Tail(account_list))

RECURSIVE FromOuLoopSkip(_, _, _)
FromOuLoopSkip(targets, tree, accounts) ==
    IF targets = <<>> THEN [raised |-> FALSE, value |-> accounts]
    ELSE IF ~DictHas(tree, Head(targets))
         THEN FromOuLoopSkip(Tail(targets), tree, accounts)
         ELSE FromOuLoopSkip(Tail(targets), tree,
                             AddAccounts(accounts, DictGet(tree, Head(targets))))

\* account_ids_from_ou reading with a default: .get(ou, [])
account_ids_from_ou_Skip(ou_target_accounts, ou_with_all_accounts) ==
    FromOuLoopSkip(ou_target_accounts, ou_with_all_accounts, <<>>)

RECURSIVE FromOuLoopKeepFirst(_, _, _)
FromOuLoopKeepFirst(targets, tree, accounts) ==
    IF targets = <<>> THEN [raised |-> FALSE, value |-> accounts]
    ELSE IF ~DictHas(tree, Head(targets))   \* .get(ou) is None
         THEN [raised |-> TRUE, value |-> <<>>]
         ELSE FromOuLoopKeepFirst(Tail(targets), tree,
                  AddAccountsKeepFirst(accounts, DictGet(tree, Head(targets))))

\* account_ids_from_ou that never overwrites a name already collected
account_ids_from_ou_KeepFirst(ou_target_accounts, ou_with_all_accounts) ==
    FromOuLoopKeepFirst(ou_target_accounts, ou_with_all_accounts, <<>>)

RECURSIVE FromOuLoop(_, _, _)
\* the outer loop of account_ids_from_ou; iterating over .get(ou) = None
\* raises TypeError, which leaves the function without a return value
FromOuLoop(targets, tree, accounts) ==
    IF targets = <<>> THEN [raised |-> FALSE, value |-> accounts]
    ELSE IF ~DictHas(tree, Head(targets))   \* .get(ou) is None
         THEN [raised |-> TRUE, value |-> <<>>]
         ELSE FromOuLoop(Tail(targets), tree,
                         AddAccounts(accounts, DictGet(tree, Head(targets))))

account_ids_from_ou(ou_target_accounts, ou_with_all_accounts) ==
    FromOuLoop(ou_target_accounts, ou_with_all_accounts, <<>>)

RECURSIVE TreeAccounts(_)
\* every account of the tree in traversal order: OU keys in insertion
\* order, accounts in list order
TreeAccounts(tree) ==
    IF tree = <<>> THEN <<>> ELSE Head(tree)[2] \o TreeAccounts(Tail(tree))

RECURSIVE FromNameLoop(_, _, _)
\* the loops of account_ids_from_name over the accounts in traversal order;
\* targets is the caller's list, mutated by .remove()
FromNameLoop(account_list, targets, deployment_accounts) ==
    IF account_list = <<>>
    THEN [value |-> deployment_accounts, targets |-> targets]
    ELSE IF Head(account_list).Name \in Range(targets)
         THEN FromNameLoop(Tail(account_list),
                           ListRemove(targets, Head(account_list).Name),
                           DictSet(deployment_accounts,
                                   Head(account_list).Name, Head(account_list).Id))
         ELSE FromNameLoop(Tail(account_list), targets, deployment_accounts)

\* returns the mapping (value) and the content of the caller's list after
\* the call (targets)
account_ids_from_name(deployment_target_accounts, ou_org_accounts) ==
    FromNameLoop(TreeAccounts(ou_org_accounts), deployment_target_accounts, <<>>)


\* ----------------------------------------------------------- OrgTreeBuilder
\* The organization directory behind the Organizations client: dir.ous[i] is
\* the OU with id i, [parent, Name]; dir.accts lists the accounts,
\* [Name, Id, parent]; the root has id RootId. Listings come in id order.
RootId == 0

\* list_accounts_for_parent, all pages
list_accounts_for_parent(dir, parent_id) ==
    LET mine == SelectSeq(dir.accts, LAMBDA a : a.parent = parent_id)
    IN  [i \in 1..Len(mine) |-> [Name |-> mine[i].Name, Id |-> mine[i].Id]]

\* list_organizational_units_for_parent, all pages: the ids of the child OUs
list_organizational_units_for_parent(dir, parent_id) ==
    SelectSeq([i \in 1..Len(dir.ous) |-> i], LAMBDA i : dir.ous[i].parent = parent_id)

\* list_children(ParentId, ChildType='ORGANIZATIONAL_UNIT')["Children"]
list_children(dir, parent_id) ==
    {i \in 1..Len(dir.ous) : dir.ous[i].parent = parent_id}

\* the key chosen for a child OU (lines 101-104); ou_name keeps its previous
\* value when neither branch assigns it
ChildKey(dir, parent_id, name, ou, ou_name) ==
    IF name = NAME_OF_OU_ROOT THEN dir.ous[ou].Name
    ELSE IF list_children(dir, parent_id) # {} THEN name \o "/" \o dir.ous[ou].Name
    ELSE ou_name

RECURSIVE get_all_accounts_recursive(_, _, _, _)
RECURSIVE WalkChildren(_, _, _, _, _, _)

\* the loop over the child OUs of parent_id
WalkChildren(dir, parent_id, name, children, ou_name, accounts_by_ou) ==
    IF children = <<>> THEN accounts_by_ou
    ELSE LET key == ChildKey(dir, parent_id, name, Head(children), ou_name)
         IN  WalkChildren(dir, parent_id, name, Tail(children), key,
                 get_all_accounts_recursive(dir, Head(children), key, accounts_by_ou))

get_all_accounts_recursive(dir, parent_id, name, accounts_by_ou) ==
    WalkChildren(dir, parent_id, name,
                 list_organizational_units_for_parent(dir, parent_id),
                 "unbound",
                 DictSet(accounts_by_ou, name, list_accounts_for_parent(dir, parent_id)))

\* -------------------------------------------------- TerraformCodeGenerator
\* ---- text
\* Generated text is the sequence of the string pieces appended to the
\* builder, each with its own "\n"; the text itself is their concatenation.
RECURSIVE Concat(_)
Concat(pieces) == IF pieces = <<>> THEN "" ELSE Head(pieces) \o Concat(Tail(pieces))

RECURSIVE Join(_, _)
\* sep.join(strings)
Join(sep, strings) ==
    IF strings = <<>> THEN ""
    ELSE IF Len(strings) = 1 THEN strings[1]
    ELSE strings[1] \o sep \o Join(sep, Tail(strings))

RECURSIVE Spaces(_)
\* '  ' * indent
Spaces(indent) == IF indent = 0 THEN "" ELSE "  " \o Spaces(indent - 1)

\* str.lower() on the strings that occur
Lower(str) ==
    CASE str = "Management" -> "management"
      [] str = "MANAGEMENT" -> "management"
      [] str = "Audit" -> "audit"
      [] str = "TestWorkload" -> "testworkload"
      [] str = "True" -> "true"
      [] str = "False" -> "false"
      [] OTHER -> str

\* value.startswith("module.") on the strings that occur
ModuleReferences == {"module.vpc.id"}
StartsWithModule(str) == str \in ModuleReferences

\* ---- format_value
\* A value also carries s, its str() text when it is a scalar, and keys, the
\* keys of a dict in order (items are then the values).
\* format_value returns [raised, isstr, text]: raised when TypeError is
\* raised; isstr tells whether the value returned is a str (an int is
\* returned as it is, line 328).
RECURSIVE format_value(_, _)

FormatAll(values, indent) == [i \in 1..Len(values) |-> format_value(values[i], indent)]

FormatFault == [raised |-> TRUE, isstr |-> FALSE, text |-> ""]

format_value(value, indent) ==
    IF value.kind = "str"
    THEN [raised |-> FALSE, isstr |-> TRUE,
          text |-> IF StartsWithModule(value.s) THEN value.s
                   ELSE "\"" \o value.s \o "\""]
    ELSE IF value.kind = "bool"
    THEN [raised |-> FALSE, isstr |-> TRUE, text |-> Lower(value.s)]
    ELSE IF value.kind = "int"
    THEN [raised |-> FALSE, isstr |-> FALSE, text |-> value.s]
    ELSE IF value.kind = "list"
    THEN LET formatted == FormatAll(value.items, indent + 1)
             indent_space == Spaces(indent + 1)
         IN  IF \A i \in 1..Len(value.items) : value.items[i].kind \notin {"dict", "list"}
             THEN \* flat list: ", ".join() raises TypeError on a non-str item
                  IF \E i \in 1..Len(formatted) : formatted[i].raised \/ ~formatted[i].isstr
                  THEN FormatFault
                  ELSE [raised |-> FALSE, isstr |-> TRUE,
                        text |-> "[" \o Join(", ", [i \in 1..Len(formatted) |->
                                                        formatted[i].text]) \o "]"]
             ELSE IF \E i \in 1..Len(formatted) : formatted[i].raised
                  THEN FormatFault
                  ELSE [raised |-> FALSE, isstr |-> TRUE,
                        text |-> "[\n"
                                 \o Join(",\n", [i \in 1..Len(formatted) |->
                                                    indent_space \o "  " \o formatted[i].text])
                                 \o "\n" \o indent_space \o "]"]
    ELSE IF value.kind = "dict"
    THEN LET formatted == FormatAll(value.items, indent + 1)
             indent_space == Spaces(indent + 1)
         IN  IF \E i \in 1..Len(formatted) : formatted[i].raised
             THEN FormatFault
             ELSE [raised |-> FALSE, isstr |-> TRUE,
                   text |-> "{\n"
                            \o Join("\n", [i \in 1..Len(formatted) |->
                                   indent_space \o "  " \o value.keys[i] \o " = "
                                       \o formatted[i].text])
                            \o "\n" \o indent_space \o "}"]
    ELSE FormatFault

\* ---- create_provider_code
\* as ProviderBlock, without the test for the management account
ProviderBlock_AllAssumeRole(region, account_name, account_id) ==
    <<"provider \"aws\" {\n",
      "  assume_role {\n",
      "    role_arn = \"arn:aws:iam::" \o account_id
          \o ":role/OrganizationAccountAccessRole\"\n",
      "  }\n",
      "  alias  = \"" \o region \o "-" \o Lower(account_name) \o "\"\n",
      "  region = \"" \o region \o "\"\n",
      "}\n",
      "\n">>

\* one provider block, lines 215-231
ProviderBlock(region, account_name, account_id) ==
    IF account_name = "Management"
    THEN <<"provider \"aws\" {\n",
           "  region = \"" \o region \o "\"\n",
           "}\n",
           "\n">>
    ELSE <<"provider \"aws\" {\n",
           "  assume_role {\n",
           "    role_arn = \"arn:aws:iam::" \o account_id
               \o ":role/OrganizationAccountAccessRole\"\n",
           "  }\n",
           "  alias  = \"" \o region \o "-" \o Lower(account_name) \o "\"\n",
           "  region = \"" \o region \o "\"\n",
           "}\n",
           "\n">>

RECURSIVE ProviderAccountsLoop(_, _)
ProviderAccountsLoop(region, accounts) ==
    IF accounts = <<>> THEN <<>>
    ELSE ProviderBlock(region, Head(accounts)[1], Head(accounts)[2])
             \o ProviderAccountsLoop(region, Tail(accounts))

RECURSIVE ProviderRegionsLoop(_, _)
ProviderRegionsLoop(regions, accounts) ==
    IF regions = <<>> THEN <<>>
    ELSE ProviderAccountsLoop(Head(regions), accounts)
             \o ProviderRegionsLoop(Tail(regions), accounts)

\* regions: the regions in iteration order. Returns the text returned and
\* the call of write_to_file.
create_provider_code(regions, account_ids_by_name) ==
    LET provider_code_string_builder == ProviderRegionsLoop(regions, account_ids_by_name)
    IN  [text |-> provider_code_string_builder,
         written |-> <<[file |-> "terraform/provider.tf",
                        content |-> provider_code_string_builder]>>]

\* ---- create_module_code
\* lines 277-282: one piece per variable
VariableLines(variables) ==
    [i \in 1..Len(variables) |->
        "  " \o variables[i].name \o " = " \o format_value(variables[i].value, 0).text \o "\n"]

RECURSIVE DependentPieces(_, _)
\* lines 293-294: "module.<dependent>-<region>, ", kept as entry and ", "
DependentPieces(dependencies, region) ==
    IF dependencies = <<>> THEN <<>>
    ELSE <<"module." \o Head(dependencies) \o "-" \o region, ", ">>
             \o DependentPieces(Tail(dependencies), region)

\* as DependsOnPieces, without the [:-2] of line 295
DependsOnPieces_TrailingComma(dependencies, region) ==
    IF dependencies = <<>> THEN <<>>
    ELSE <<"  depends_on = [ ">> \o DependentPieces(dependencies, region) \o <<" ]\n">>

\* lines 290-295: module_code[:-2] drops the ", " after the last entry
DependsOnPieces(dependencies, region) ==
    IF dependencies = <<>> THEN <<>>
    ELSE LET pieces == <<"  depends_on = [ ">> \o DependentPieces(dependencies, region)
         IN  SubSeq(pieces, 1, Len(pieces) - 1) \o <<" ]\n">>

\* one module block, lines 272-298
ModuleBlock(module_name, module_source, region, name, variables, module_dependencies) ==
    LET account_name == Lower(name)
    IN  <<"module \"" \o module_name \o "-" \o region \o "-" \o account_name \o "\" {\n",
          "  source = \"" \o module_source \o "\"\n">>
        \o VariableLines(variables)
        \o (IF account_name # "management"
            THEN <<"  providers = {\n    aws = aws." \o region \o "-" \o account_name
                       \o "\n    }\n">>
            ELSE <<>>)
        \o DependsOnPieces(module_dependencies, region)
        \o <<"}\n", "\n">>

RECURSIVE ModuleAccountsLoop(_, _, _, _, _, _)
ModuleAccountsLoop(module_name, module_source, region, accounts, variables, deps) ==
    IF accounts = <<>> THEN <<>>
    ELSE ModuleBlock(module_name, module_source, region, Head(accounts)[1], variables, deps)
             \o ModuleAccountsLoop(module_name, module_source, region, Tail(accounts),
                                   variables, deps)

RECURSIVE ModuleRegionsLoop(_, _, _, _, _, _)
ModuleRegionsLoop(module_name, module_source, regions, accounts, variables, deps) ==
    IF regions = <<>> THEN <<>>
    ELSE ModuleAccountsLoop(module_name, module_source, Head(regions), accounts,
                            variables, deps)
             \o ModuleRegionsLoop(module_name, module_source, Tail(regions), accounts,
                                  variables, deps)

\* create_module_code: format_value runs once per region, account and
\* variable and its TypeError leaves the function; the file is written
\* after the loops
create_module_code(module_name, module_source, deployment_account_ids, regions, variables, module_dependencies) ==
    IF /\ regions # <<>>
       /\ deployment_account_ids # <<>>
       /\ \E i \in 1..Len(variables) : format_value(variables[i].value, 0).raised
    THEN [raised |-> TRUE, text |-> <<>>, written |-> <<>>]
    ELSE LET module_code == ModuleRegionsLoop(module_name, module_source, regions,
                                deployment_account_ids, variables, module_dependencies)
         IN  [raised |-> FALSE, text |-> module_code,
              written |-> <<[file |-> "terraform/" \o module_name \o ".tf",
                             content |-> module_code]>>]

\* create_backend_code, lines 186-196
create_backend_code ==
    <<[file |-> "terraform/backend.tf",
       content |-> <<"terraform {\n", "  backend \"s3\" {\n", "    use_lockfile = true\n",
                     "  }\n", "  required_version = \">= 1.11.1\"\n", "}">>]>>

\* create_empty_main_tf, line 245
create_empty_main_tf == <<[file |-> "terraform/main.tf", content |-> <<>>]>>

\* ------------------------------------------------------- DeploymentPlanner
\* get_all_accounts: list_accounts, all pages, by name
get_all_accounts(dir) ==
    AddAccounts(<<>>, [i \in 1..Len(dir.accts) |->
                         [Name |-> dir.accts[i].Name, Id |-> dir.accts[i].Id]])

\* get_all_regions: the RegionName of every region describe_regions reports
get_all_regions(described) == described

\* lines 407-410: every account of the tree by name
AccountIdsByName(ou_with_all_accounts) == AddAccounts(<<>>, TreeAccounts(ou_with_all_accounts))

\* lines 481-488 with the membership test dropped
UnknownDependencyNever(dependencies, all_modules) == FALSE

\* lines 481-488: some declared dependency is not a module of the run
UnknownDependency(dependencies, all_modules) ==
    \E i \in 1..Len(dependencies) : dependencies[i] \notin Range(all_modules)

RECURSIVE ResolveTargets(_, _, _)
\* lines 448-480: the loop over the keys of deploymentTargets in key order;
\* an exception of account_ids_from_ou is caught and ends deploy_targets
ResolveTargets(entries, all_org_accounts_copy, deployment_target_accounts) ==
    IF entries = <<>> THEN [raised |-> FALSE, value |-> deployment_target_accounts]
    ELSE LET target == Head(entries)[1]
             list == Head(entries)[2]
         IN  IF target = "organizationalUnits" /\ list # <<>>
             THEN LET r == account_ids_from_ou(list, all_org_accounts_copy)
                  IN  IF r.raised THEN [raised |-> TRUE, value |-> <<>>]
                      ELSE ResolveTargets(Tail(entries), all_org_accounts_copy,
                               DictUpdate(deployment_target_accounts, r.value))
             ELSE IF target = "accounts" /\ list # <<>>
             THEN ResolveTargets(Tail(entries), all_org_accounts_copy,
                      DictUpdate(deployment_target_accounts,
                                 account_ids_from_name(list, all_org_accounts_copy).value))
             ELSE ResolveTargets(Tail(entries), all_org_accounts_copy,
                                 deployment_target_accounts)

\* lines 430-446: whether the exclusion filter runs for this module
Excludes(deployment_target) ==
    /\ DictHas(deployment_target, "excludedAccounts")
    /\ DictGet(deployment_target, "excludedAccounts") # <<>>

\* One iteration of the loop of deploy_targets (lines 417-502) for tf_module:
\*   shared   content of ou_with_all_accounts after the pass (line 436 passes
\*            the shared dict itself, not the deep copy, to the filter)
\*   regions  ALL_REGIONS after the pass
\*   targets  deployment_target_accounts
\*   error    "none", or the error that ended the pass
\*   ended    "no" | "returned" (logged, return None) | "raised"
\*   written  the calls of write_to_file, in order: [file, content]
\* account_ids_by_name is the dict of lines 407-410 and region_order the order
\* in which the set ALL_REGIONS is iterated by create_provider_code.
ModulePass(tf_module, ou_with_all_accounts, all_regions, all_modules, account_ids_by_name, region_order) ==
    LET deployment_target == tf_module.deploymentTargets
        regions == all_regions \cup Range(tf_module.regions)
        shared == IF Excludes(deployment_target)
                  THEN filter_excluded_accounts(ou_with_all_accounts,
                           DictGet(deployment_target, "excludedAccounts"))
                  ELSE ou_with_all_accounts
        \* the deep copy of line 427, replaced at line 435 by the filtered
        \* shared dict when there are exclusions
        all_org_accounts_copy == shared
        resolved == ResolveTargets(deployment_target, all_org_accounts_copy, <<>>)
        provider == create_provider_code(region_order, account_ids_by_name)
        module == create_module_code(tf_module.name, tf_module.source, resolved.value,
                                     tf_module.regions, tf_module.variables,
                                     tf_module.dependsOn)
    IN  IF resolved.raised
        THEN [shared |-> shared, regions |-> regions, targets |-> <<>>,
              error |-> "missing_ou", ended |-> "returned", written |-> <<>>]
        ELSE IF UnknownDependency(tf_module.dependsOn, all_modules)
        THEN [shared |-> shared, regions |-> regions, targets |-> resolved.value,
              error |-> "unknown_dependency", ended |-> "returned", written |-> <<>>]
        ELSE IF module.raised
        THEN [shared |-> shared, regions |-> regions, targets |-> resolved.value,
              error |-> "unsupported_type", ended |-> "raised",
              written |-> provider.written]
        ELSE [shared |-> shared, regions |-> regions, targets |-> resolved.value,
              error |-> "none", ended |-> "no",
              written |-> provider.written \o module.written]


\* ------------------------------------------------------------------- state
VARIABLES
    \* calls of the AccountResolver functions
    op,          \* "idle", or the call that has returned
    tree,        \* content of the dict object passed as the tree argument
    tree0,       \* its content when the call was made
    argList,     \* content of the caller's list argument
    argList0,    \* its content when the call was made
    result,      \* what the call returned: [raised, value]
    prevResult,  \* the value returned by the previous call (repeated calls)
    \* the tree build
    directory,   \* the organization as the Organizations API reports it
    bpc,         \* "start", "built"
    built,       \* the dict returned by get_all_accounts_recursive
    \* the planner run (main / deploy_targets)
    pc,                          \* "main", "branch", "loop", "iterated", "done"
    all_modules,                 \* the names of tf_modules, in order
    pass,                        \* number of loop iterations started
    tf_module,                   \* the module of the current iteration
    ou_with_all_accounts,        \* the shared tree
    ALL_REGIONS,                 \* the module-level set of regions
    deployment_target_accounts,  \* the accounts resolved in this iteration
    log,                         \* write_to_file calls: [pass, file]
    sink,                        \* write_to_file calls of the current step or
                                 \* iteration, with the text: [file, content]
    available_regions,           \* all_regions of main: what get_all_regions returned
    error,                       \* the error that ended the run, or "none"
    outcome,                     \* "running", "completed", "raised"
    \* calls of the generator functions
    gop,         \* "idle", or the call that has returned
    gargs,       \* the arguments of the call
    gout         \* what it returned: [raised, isstr, text, written]

resolverVars == <<op, tree, tree0, argList, argList0, result, prevResult>>
buildVars == <<directory, bpc, built>>

plannerVars == <<pc, all_modules, pass, tf_module, ou_with_all_accounts, ALL_REGIONS,
                 deployment_target_accounts, log, sink, available_regions, error, outcome>>
generatorVars == <<gop, gargs, gout>>

vars == <<resolverVars, buildVars, plannerVars, generatorVars>>

NoModule == [name |-> "", source |-> "", regions |-> <<>>, variables |-> <<>>,
             dependsOn |-> <<>>, deploymentTargets |-> <<>>]

PlannerIdle ==
    /\ pc = "off"
    /\ all_modules = <<>>
    /\ pass = 0
    /\ tf_module = NoModule
    /\ ou_with_all_accounts = <<>>
    /\ ALL_REGIONS = {}
    /\ deployment_target_accounts = <<>>
    /\ log = <<>>
    /\ sink = <<>>
    /\ available_regions = <<>>
    /\ error = "none"
    /\ outcome = "running"

NoArgs == [value |-> [kind |-> "none", s |-> "", keys |-> <<>>, items |-> <<>>],
           regions |-> <<>>, accounts |-> <<>>, module_name |-> "",
           variables |-> <<>>, dependencies |-> <<>>]
NoOutput == [raised |-> FALSE, isstr |-> FALSE, text |-> <<>>, written |-> <<>>]

GeneratorIdle ==
    /\ gop = "off"
    /\ gargs = NoArgs
    /\ gout = NoOutput

EmptyDirectory == [ous |-> <<>>, accts |-> <<>>]

ResolverIdle ==
    /\ op = "off"
    /\ tree = <<>>
    /\ tree0 = <<>>
    /\ argList = <<>>
    /\ argList0 = <<>>
    /\ result = [raised |-> FALSE, value |-> <<>>]
    /\ prevResult = [raised |-> FALSE, value |-> <<>>]

BuildIdle ==
    /\ directory = EmptyDirectory
    /\ bpc = "off"
    /\ built = <<>>

\* ------------------------------------------------------------ input trees
KeySeqs == {k \in SeqsUpTo(OUPaths, MaxOUs) :
               \A i, j \in 1..Len(k) : i # j => k[i] # k[j]}

\* account i of the organization has id AcctIds[i] (ids are unique, names
\* are not); names[i] is its name and place[i] the OU entry listing it
TreeOf(keys, names, place) ==
    [j \in 1..Len(keys) |->
        <<keys[j],
          LET all == [i \in 1..Len(names) |->
                         [Name |-> names[i], Id |-> AcctIds[i], at |-> place[i]]]
              mine == SelectSeq(all, LAMBDA a : a.at = j)
          IN  [i \in 1..Len(mine) |-> [Name |-> mine[i].Name, Id |-> mine[i].Id]]>>]

NoResult == [raised |-> FALSE, value |-> <<>>]

ResolverInit ==
    /\ op = "idle"
    /\ \E keys \in KeySeqs, n \in 0..MaxAccts :
         \E names \in [1..n -> AcctNames], place \in [1..n -> 1..Len(keys)] :
            tree = TreeOf(keys, names, place)
    /\ tree0 = tree
    /\ argList = <<>>
    /\ argList0 = <<>>
    /\ result = NoResult
    /\ prevResult = NoResult
    /\ BuildIdle
    /\ PlannerIdle
    /\ GeneratorIdle

\* account_ids_from_ou(paths, tree)
CallFromOu ==
    /\ op = "idle"
    /\ \E paths \in SeqsUpTo(OUPaths, MaxReq) :
         /\ argList0' = paths
         /\ argList' = paths
         /\ result' = account_ids_from_ou(paths, tree)
    /\ op' = "from_ou"
    /\ UNCHANGED <<tree, tree0, prevResult, buildVars, plannerVars, generatorVars>>

\* account_ids_from_name(names, tree): the list is mutated by .remove()
CallFromName ==
    /\ op = "idle"
    /\ \E names \in SeqsUpTo(AcctNames \cup {"Ghost"}, MaxReq) :
         LET r == account_ids_from_name(names, tree)
         IN  /\ argList0' = names
             /\ argList' = r.targets
             /\ result' = [raised |-> FALSE, value |-> r.value]
    /\ op' = "from_name"
    /\ UNCHANGED <<tree, tree0, prevResult, buildVars, plannerVars, generatorVars>>

\* filter_excluded_accounts(tree, excluded): the dict passed in is rebuilt in
\* place and the same object is returned
CallFilter ==
    /\ op = "idle"
    /\ \E excluded \in SeqsUpTo(OUPaths \cup AcctNames, MaxReq) :
         /\ argList0' = excluded
         /\ argList' = excluded
         /\ tree' = filter_excluded_accounts(tree, excluded)
         /\ result' = [raised |-> FALSE,
                       value |-> filter_excluded_accounts(tree, excluded)]
    /\ op' = "filter"
    /\ UNCHANGED <<tree0, prevResult, buildVars, plannerVars, generatorVars>>

\* filter_excluded_accounts applied to the tree it returned, same exclusions
CallFilterAgain ==
    /\ op = "filter"
    /\ prevResult' = result
    /\ tree' = filter_excluded_accounts(result.value, argList)
    /\ result' = [raised |-> FALSE,
                  value |-> filter_excluded_accounts(result.value, argList)]
    /\ op' = "filter_again"
    /\ UNCHANGED <<tree0, argList, argList0, buildVars, plannerVars, generatorVars>>

ResolverNext == CallFromOu \/ CallFromName \/ CallFilter \/ CallFilterAgain

ResolverSpec == ResolverInit /\ [][ResolverNext]_vars

\* ------------------------------------------------ AccountResolver properties
AllPresent(paths, t) == \A i \in 1..Len(paths) : paths[i] \in DictKeys(t)

RECURSIVE RequestedAccounts(_, _)
\* the accounts listed directly under the requested paths, in request order
\* and then list order (paths all present)
RequestedAccounts(paths, t) ==
    IF paths = <<>> THEN <<>>
    ELSE DictGet(t, Head(paths)) \o RequestedAccounts(Tail(paths), t)

Pairs(accts) == {<<accts[i].Name, accts[i].Id>> : i \in 1..Len(accts)}

\* C3: account_ids_from_ou raises, and returns no mapping, whenever some
\* requested OU path is absent from the tree, wherever it stands in the list.
C3_AbsentPathRaises ==
    (op = "from_ou" /\ ~AllPresent(argList0, tree0))
        => (result.raised /\ result.value = <<>>)

C3_Witness ==
    /\ op = "from_ou"
    /\ Len(argList0) = 2
    /\ argList0[1] \in DictKeys(tree0)
    /\ DictGet(tree0, argList0[1]) # <<>>
    /\ argList0[2] \notin DictKeys(tree0)
    /\ result.raised

C6_WithExclusions ==
    op = "filter"
        => LET r == result.value
               E == Range(argList0)
           IN  /\ Len(r) = Len(tree0)
               /\ \A i \in 1..Len(r) :
                    /\ r[i][1] = tree0[i][1]
                    /\ r[i][1] \in E => r[i][2] = <<>>
                    /\ \A j \in 1..Len(r[i][2]) : r[i][2][j].Name \notin E
                    /\ r[i][1] \notin E =>
                         r[i][2] = SelectSeq(tree0[i][2], LAMBDA a : a.Name \notin E)

C6_Witness ==
    /\ op = "filter"
    /\ "Workloads" \in Range(argList0)
    /\ \E i, j \in 1..Len(tree0) :
         /\ tree0[i][1] = "Workloads"
         /\ tree0[i][2] # <<>>
         /\ result.value[i][2] = <<>>
         /\ tree0[j][1] = "Workloads/Dev"
         /\ result.value[j][2] # <<>>

\* C7: a call of account_ids_from_ou, account_ids_from_name or
\* filter_excluded_accounts leaves the tree and the list passed to it as they
\* were when the call was made.
C7_ArgumentsUnchanged ==
    op \in {"from_ou", "from_name", "filter"}
        => (tree = tree0 /\ argList = argList0)

\* C8: filtering the filtered tree again with the same exclusions returns
\* the same tree.
C8_Idempotent ==
    op = "filter_again" => result.value = prevResult.value

C8_Witness ==
    /\ op = "filter_again"
    /\ prevResult.value # tree0
    /\ \E i \in 1..Len(tree0) : Len(tree0[i][2]) = 2 /\ Len(prevResult.value[i][2]) = 0

FirstIndex(flat, n) ==
    CHOOSE i \in 1..Len(flat) :
        flat[i].Name = n /\ \A j \in 1..(i-1) : flat[j].Name # n

\* C9: account_ids_from_name returns exactly the requested names that occur
\* in the tree, each with the id of its first copy in traversal order.
C9_FirstCopyWins ==
    op = "from_name"
        => LET flat == TreeAccounts(tree0)
               v == result.value
           IN  /\ DictKeys(v) = Range(argList0) \cap {flat[i].Name : i \in 1..Len(flat)}
               /\ \A n \in DictKeys(v) : DictGet(v, n) = flat[FirstIndex(flat, n)].Id

\* ------------------------------------------------------------ tree build
OUNames == {"root", "Workloads", "Dev"}

\* sibling OUs have distinct names; the parent of OU i has a smaller id
Directories ==
    {d \in [ous : UNION {[1..k -> [parent : 0..(MaxOUs - 1), Name : OUNames]] : k \in 0..MaxOUs},
            accts : UNION {[1..n -> [Name : AcctNames, Id : Range(AcctIds), parent : 0..MaxOUs]]
                              : n \in 0..MaxAccts}] :
        /\ \A i \in 1..Len(d.ous) : d.ous[i].parent < i
        /\ \A i, j \in 1..Len(d.ous) :
             (i # j /\ d.ous[i].parent = d.ous[j].parent) => d.ous[i].Name # d.ous[j].Name
        /\ \A i \in 1..Len(d.accts) :
             /\ d.accts[i].Id = AcctIds[i]
             /\ d.accts[i].parent <= Len(d.ous)}

BuildInit ==
    /\ ResolverIdle
    /\ directory \in Directories
    /\ bpc = "start"
    /\ built = <<>>
    /\ PlannerIdle
    /\ GeneratorIdle

\* get_all_accounts_recursive(org_client, root_id, "root", {})
BuildTree ==
    /\ bpc = "start"
    /\ built' = get_all_accounts_recursive(directory, RootId, NAME_OF_OU_ROOT, <<>>)
    /\ bpc' = "built"
    /\ UNCHANGED <<directory, resolverVars, plannerVars, generatorVars>>

BuildNext == BuildTree

BuildSpec == BuildInit /\ [][BuildNext]_vars

RECURSIVE PathOf(_, _)
\* the path key the naming rule gives OU i: the root marker for the root, the
\* simple name for a child of the root, "<parent-path>/<own-name>" below
PathOf(d, i) ==
    IF i = RootId THEN NAME_OF_OU_ROOT
    ELSE IF d.ous[i].parent = RootId THEN d.ous[i].Name
    ELSE PathOf(d, d.ous[i].parent) \o "/" \o d.ous[i].Name

\* C10: the built tree has one entry per OU, keyed by the OU's path, distinct
\* OUs having distinct keys, and every account of the directory appears in
\* exactly one entry, that of its direct parent.
C10_TreeComplete ==
    bpc = "built"
        => LET ouIds == 0..Len(directory.ous)
               flat == TreeAccounts(built)
           IN  /\ \A i, j \in ouIds : i # j => PathOf(directory, i) # PathOf(directory, j)
               /\ DictKeys(built) = {PathOf(directory, i) : i \in ouIds}
               /\ Len(built) = Len(directory.ous) + 1
               /\ Len(flat) = Len(directory.accts)
               /\ \A a \in 1..Len(directory.accts) :
                    [Name |-> directory.accts[a].Name, Id |-> directory.accts[a].Id]
                        \in Range(DictGet(built, PathOf(directory, directory.accts[a].parent)))

\* ------------------------------------------------------------ planner run
MaxModules == 2    \* modules declared in a run

ModuleNames == {"moduleA", "moduleB"}
MODULE_SOURCE == "github.com/org/module"
Regions == {"eu-west-2", "us-east-1"}

\* the organizations the run is made against
MgmtAccount == [Name |-> "Management", Id |-> "111111111111", parent |-> 0]
OrgWorkloads ==
    [ous |-> <<[parent |-> 0, Name |-> "Workloads"], [parent |-> 1, Name |-> "Dev"]>>,
     accts |-> <<MgmtAccount,
                 [Name |-> "Audit", Id |-> "222222222222", parent |-> 1],
                 [Name |-> "TestWorkload", Id |-> "333333333333", parent |-> 2]>>]
OrgTwoAudits ==
    [ous |-> <<[parent |-> 0, Name |-> "Workloads"], [parent |-> 1, Name |-> "Dev"]>>,
     accts |-> <<[Name |-> "Audit", Id |-> "111111111111", parent |-> 1],
                 [Name |-> "Audit", Id |-> "222222222222", parent |-> 2]>>]
OrgLowerCase ==
    [ous |-> <<[parent |-> 0, Name |-> "Workloads"], [parent |-> 1, Name |-> "Dev"]>>,
     accts |-> <<[Name |-> "Audit", Id |-> "222222222222", parent |-> 1],
                 [Name |-> "management", Id |-> "111111111111", parent |-> 2]>>]
Organizations == {OrgWorkloads, OrgTwoAudits, OrgLowerCase}

\* the values a module declaration is drawn from
StrValue == [kind |-> "str", s |-> "myDummyAPIKey", keys |-> <<>>, items |-> <<>>]
FloatValue == [kind |-> "float", s |-> "1.5", keys |-> <<>>, items |-> <<>>]
VariableLists == {<<>>, <<[name |-> "v", value |-> StrValue]>>,
                  <<[name |-> "v", value |-> FloatValue]>>}
RegionLists == {<<"eu-west-2">>, <<"us-east-1">>}
AvailableRegionLists == {<<"eu-west-2">>, <<"eu-west-2", "us-east-1">>}

\* the orders in which a set can be iterated
Orderings(S) == {o \in [1..Cardinality(S) -> S] : Range(o) = S}
DependsOnLists == {<<>>, <<"moduleA">>, <<"moduleA", "moduleC">>}
OuTargetLists == {<<"Workloads/Dev">>, <<"Workloads", "NoSuchOU">>}
AccountTargetLists == {<<"Audit">>}
ExcludedLists == {<<"Audit">>, <<"Workloads/Dev">>}

\* deploymentTargets: a dict with any of the three keys; the order of
\* organizationalUnits and accounts is the order of resolution
TargetEntries ==
    {<<"organizationalUnits", l>> : l \in OuTargetLists}
        \cup {<<"accounts", l>> : l \in AccountTargetLists}
        \cup {<<"excludedAccounts", l>> : l \in ExcludedLists}

DeploymentTargets ==
    {t \in SeqsUpTo(TargetEntries, 3) :
        /\ \A i, j \in 1..Len(t) : i # j => t[i][1] # t[j][1]
        /\ \A i \in 1..Len(t) : t[i][1] = "excludedAccounts" => i = Len(t)}

ModuleSpecs(name) ==
    [name : {name}, source : {MODULE_SOURCE}, regions : RegionLists,
     variables : VariableLists, dependsOn : DependsOnLists,
     deploymentTargets : DeploymentTargets]

\* main() has loaded the configuration and created the client. The names of
\* the declared modules are fixed here; the other fields of a module are
\* read, and so drawn, in the iteration that processes it.
Init ==
    /\ ResolverIdle
    /\ directory \in Organizations
    /\ bpc = "off"
    /\ built = <<>>
    /\ pc = "main"
    /\ all_modules \in SeqsUpTo(ModuleNames, MaxModules)
    /\ pass = 0
    /\ tf_module = NoModule
    /\ ou_with_all_accounts = <<>>
    /\ ALL_REGIONS = {}
    /\ deployment_target_accounts = <<>>
    /\ log = <<>>
    /\ sink = <<>>
    /\ available_regions = <<>>
    /\ error = "none"
    /\ outcome = "running"
    /\ GeneratorIdle

\* main, line 526: create_backend_code()
CreateBackend ==
    /\ pc = "main"
    /\ log' = Append(log, [pass |-> 0, file |-> "terraform/backend.tf"])
    /\ sink' = create_backend_code
    /\ pc' = "branch"
    /\ UNCHANGED <<all_modules, pass, tf_module, ou_with_all_accounts, ALL_REGIONS,
                   deployment_target_accounts, available_regions, error, outcome,
                   resolverVars, buildVars, generatorVars>>

\* main, lines 528-538: no modules declared
NoModules ==
    /\ pc = "branch"
    /\ all_modules = <<>>
    /\ log' = log \o <<[pass |-> 0, file |-> "terraform/provider.tf"],
                       [pass |-> 0, file |-> "terraform/main.tf"]>>
    /\ \E described \in AvailableRegionLists :
         /\ available_regions' = get_all_regions(described)
         /\ sink' = sink
                  \o create_provider_code(get_all_regions(described),
                                          get_all_accounts(directory)).written
                  \o create_empty_main_tf
    /\ pc' = "done"
    /\ outcome' = "completed"
    /\ UNCHANGED <<all_modules, pass, tf_module, ou_with_all_accounts, ALL_REGIONS,
                   deployment_target_accounts, error,
                   resolverVars, buildVars, generatorVars>>

\* deploy_targets, lines 396-415: the tree is built once
DeployStart ==
    /\ pc = "branch"
    /\ all_modules # <<>>
    /\ ou_with_all_accounts' =
           get_all_accounts_recursive(directory, RootId, NAME_OF_OU_ROOT, <<>>)
    /\ pc' = "loop"
    /\ UNCHANGED <<all_modules, pass, tf_module, ALL_REGIONS, deployment_target_accounts,
                   log, sink, available_regions, error, outcome,
                   resolverVars, buildVars, generatorVars>>

\* deploy_targets, lines 417-502: one iteration of the loop over tf_modules
ModulePassStep ==
    /\ pc = "loop"
    /\ pass < Len(all_modules)
    /\ LET account_ids_by_name ==
               AccountIdsByName(get_all_accounts_recursive(
                   directory, RootId, NAME_OF_OU_ROOT, <<>>))
       IN
       \E m \in ModuleSpecs(all_modules[pass + 1]) :
       \E region_order \in Orderings(ALL_REGIONS \cup Range(m.regions)) :
         LET r == ModulePass(m, ou_with_all_accounts, ALL_REGIONS, all_modules,
                             account_ids_by_name, region_order)
         IN  /\ tf_module' = m
             /\ ou_with_all_accounts' = r.shared
             /\ ALL_REGIONS' = r.regions
             /\ deployment_target_accounts' = r.targets
             /\ log' = log \o [i \in 1..Len(r.written) |->
                                  [pass |-> pass + 1, file |-> r.written[i].file]]
             /\ sink' = r.written
             /\ error' = r.error
             /\ pc' = IF r.ended = "no" THEN "iterated" ELSE "done"
             /\ outcome' = IF r.ended = "no" THEN "running"
                           ELSE IF r.ended = "returned" THEN "completed"
                           ELSE "raised"
    /\ pass' = pass + 1
    /\ UNCHANGED <<all_modules, available_regions, resolverVars, buildVars, generatorVars>>

\* deploy_targets, lines 417-418: the loop moves on; tf_module is about to be
\* rebound and deployment_target_accounts is reset
NextModule ==
    /\ pc = "iterated"
    /\ pc' = "loop"
    /\ tf_module' = NoModule
    /\ deployment_target_accounts' = <<>>
    /\ sink' = <<>>
    /\ UNCHANGED <<all_modules, pass, ou_with_all_accounts, ALL_REGIONS, log,
                   available_regions, error, outcome, resolverVars, buildVars,
                   generatorVars>>

\* deploy_targets, line 503, and main, line 545: the loop is over
DeployReturns ==
    /\ pc = "loop"
    /\ pass = Len(all_modules)
    /\ pc' = "done"
    /\ outcome' = "completed"
    /\ UNCHANGED <<all_modules, pass, tf_module, ou_with_all_accounts, ALL_REGIONS,
                   deployment_target_accounts, log, sink, available_regions, error,
                   resolverVars, buildVars, generatorVars>>

Next ==
    \/ CreateBackend
    \/ NoModules
    \/ DeployStart
    \/ ModulePassStep
    \/ NextModule
    \/ DeployReturns

Spec == Init /\ [][Next]_vars

\* --------------------------------------------------------- planner properties
\* the tree as built at the start of the run
OriginalTree == get_all_accounts_recursive(directory, RootId, NAME_OF_OU_ROOT, <<>>)

\* the accounts a module resolves when its exclusions are applied to a
\* private copy of the original tree
IsolatedResolution(deployment_target) ==
    ResolveTargets(deployment_target,
                   IF Excludes(deployment_target)
                   THEN filter_excluded_accounts(OriginalTree,
                            DictGet(deployment_target, "excludedAccounts"))
                   ELSE OriginalTree,
                   <<>>)

\* C1: after every module pass the shared tree is as it was built, and the
\* accounts resolved for a module are those its own deployment target
\* selects from the original tree, whatever earlier modules excluded.
C1_ModulePassesIsolated ==
    (pc \in {"iterated", "done"} /\ pass >= 1)
        => /\ ou_with_all_accounts = OriginalTree
           /\ (tf_module # NoModule /\ error # "missing_ou")
                 => (/\ ~IsolatedResolution(tf_module.deploymentTargets).raised
                     /\ DictItems(deployment_target_accounts)
                           = DictItems(IsolatedResolution(tf_module.deploymentTargets).value))

DeclaresUnknownDependency ==
    \E i \in 1..Len(tf_module.dependsOn) : tf_module.dependsOn[i] \notin Range(all_modules)

\* C2: a module that declares a dependency absent from the module names of
\* the run ends the run in its own pass, and no file (provider or module
\* artifact) is written during that pass.
C2_NoTextOnUnknownDependency ==
    (pc \in {"iterated", "done"} /\ pass >= 1 /\ DeclaresUnknownDependency)
        => /\ pc = "done"
           /\ error \in {"missing_ou", "unknown_dependency"}
           /\ \A i \in 1..Len(log) : log[i].pass # pass

C2_Witness ==
    /\ pc = "done"
    /\ pass = 2
    /\ DeclaresUnknownDependency
    /\ error = "unknown_dependency"
    /\ deployment_target_accounts # <<>>
    /\ \E i \in 1..Len(log) : log[i].pass = 1 /\ log[i].file = "terraform/provider.tf"
    /\ \E i \in 1..Len(log) : log[i].pass = 1 /\ log[i].file # "terraform/provider.tf"
    /\ \A i \in 1..Len(log) : log[i].pass # 2

\* C4: a run in which a module pass hit a configuration error ends in a
\* failure its caller observes, not in a normal completion, and nothing is
\* written for the modules after the failing one.
C4_ErrorPropagates ==
    (pc = "done" /\ error # "none")
        => /\ outcome = "raised"
           /\ \A i \in 1..Len(log) : log[i].pass <= pass

\* ------------------------------------------------------------ GeneratorSpec
\* Calls of create_provider_code, create_module_code and format_value, each
\* on arguments drawn here.
MaxItems == 2         \* items of a list or dict value
MaxGenAccts == 2      \* accounts handed to a generator
MaxGenRegions == 2    \* regions handed to a generator

Scalar(kind, s) == [kind |-> kind, s |-> s, keys |-> <<>>, items |-> <<>>]
ListValue(items) == [kind |-> "list", s |-> "", keys |-> <<>>, items |-> items]
DictValue(keys, items) == [kind |-> "dict", s |-> "", keys |-> keys, items |-> items]

StrScalars == {Scalar("str", "myDummyAPIKey"), Scalar("str", "module.vpc.id")}
BoolScalars == {Scalar("bool", "True"), Scalar("bool", "False")}
IntScalars == {Scalar("int", "10")}
Scalars == StrScalars \cup BoolScalars \cup IntScalars
Unsupported == {FloatValue}

FlatLists == {ListValue(l) : l \in SeqsUpTo(Scalars \cup Unsupported, MaxItems)}
DictKeyNames == <<"k1", "k2", "k3", "k4">>
Dicts ==
    {DictValue(SubSeq(DictKeyNames, 1, Len(l)), l) :
        l \in SeqsUpTo(StrScalars \cup IntScalars \cup Unsupported, MaxItems)}
Nestable ==
    {Scalar("str", "myDummyAPIKey"), Scalar("int", "10"),
     ListValue(<<Scalar("str", "myDummyAPIKey"), Scalar("bool", "True")>>),
     ListValue(<<Scalar("int", "10")>>),
     DictValue(<<"k1">>, <<Scalar("bool", "False")>>)}
NestedLists ==
    {ListValue(l) : l \in {n \in SeqsUpTo(Nestable, MaxItems) :
                              \E i \in 1..Len(n) : n[i].kind \in {"list", "dict"}}}
Values == Scalars \cup Unsupported \cup FlatLists \cup Dicts \cup NestedLists

GenAccountNames == {"Management", "management", "Audit", "TestWorkload"}
IdOf(name) ==
    CASE name = "Management" -> "111111111111"
      [] name = "management" -> "444444444444"
      [] name = "Audit" -> "222222222222"
      [] OTHER -> "333333333333"
Distinct(seq) == \A i, j \in 1..Len(seq) : i # j => seq[i] # seq[j]
\* a name-keyed dict of account ids
GenAccountDicts ==
    {[i \in 1..Len(names) |-> <<names[i], IdOf(names[i])>>] :
        names \in {n \in SeqsUpTo(GenAccountNames, MaxGenAccts) : Distinct(n)}}
\* regions: a set, or a list of the configuration
GenRegionLists == {r \in SeqsUpTo(Regions, MaxGenRegions) : Distinct(r)}
GenDependsOnLists == {<<>>, <<"moduleA">>, <<"moduleC", "moduleA">>}

GeneratorInit ==
    /\ gop = "idle"
    /\ gargs = NoArgs
    /\ gout = NoOutput
    /\ ResolverIdle
    /\ BuildIdle
    /\ PlannerIdle

CallFormatValue ==
    /\ gop = "idle"
    /\ \E value \in Values :
         LET r == format_value(value, 0)
         IN  /\ gargs' = [NoArgs EXCEPT !.value = value]
             /\ gout' = [raised |-> r.raised, isstr |-> r.isstr,
                         text |-> <<r.text>>, written |-> <<>>]
    /\ gop' = "format_value"
    /\ UNCHANGED <<resolverVars, buildVars, plannerVars>>

CallCreateProviderCode ==
    /\ gop = "idle"
    /\ \E regions \in GenRegionLists, account_ids_by_name \in GenAccountDicts :
         LET r == create_provider_code(regions, account_ids_by_name)
         IN  /\ gargs' = [NoArgs EXCEPT !.regions = regions,
                                        !.accounts = account_ids_by_name]
             /\ gout' = [raised |-> FALSE, isstr |-> TRUE,
                         text |-> r.text, written |-> r.written]
    /\ gop' = "create_provider_code"
    /\ UNCHANGED <<resolverVars, buildVars, plannerVars>>

CallCreateModuleCode ==
    /\ gop = "idle"
    /\ \E module_name \in ModuleNames, regions \in GenRegionLists,
          deployment_account_ids \in GenAccountDicts,
          variables \in VariableLists, module_dependencies \in GenDependsOnLists :
         LET r == create_module_code(module_name, MODULE_SOURCE, deployment_account_ids,
                                     regions, variables, module_dependencies)
         IN  /\ gargs' = [NoArgs EXCEPT !.module_name = module_name,
                                        !.regions = regions,
                                        !.accounts = deployment_account_ids,
                                        !.variables = variables,
                                        !.dependencies = module_dependencies]
             /\ gout' = [raised |-> r.raised, isstr |-> TRUE,
                         text |-> r.text, written |-> r.written]
    /\ gop' = "create_module_code"
    /\ UNCHANGED <<resolverVars, buildVars, plannerVars>>

GeneratorNext ==
    \/ CallFormatValue
    \/ CallCreateProviderCode
    \/ CallCreateModuleCode

GeneratorSpec == GeneratorInit /\ [][GeneratorNext]_vars

\* ------------------------------------------------------ generator properties
RECURSIVE SplitBlocks(_, _, _)
SplitBlocks(text, current, blocks) ==
    IF text = <<>> THEN (IF current = <<>> THEN blocks ELSE Append(blocks, current))
    ELSE IF Head(text) = "\n" THEN SplitBlocks(Tail(text), <<>>, Append(blocks, current))
    ELSE SplitBlocks(Tail(text), Append(current, Head(text)), blocks)

\* the blocks of a generated text: the pieces between the blank lines
Blocks(text) == SplitBlocks(text, <<>>, <<>>)

Has(block, piece) == \E p \in 1..Len(block) : block[p] = piece

RegionPiece(region) == "  region = \"" \o region \o "\"\n"
AliasPiece(region, name) == "  alias  = \"" \o region \o "-" \o name \o "\"\n"
RoleArnPiece(account_id) ==
    "    role_arn = \"arn:aws:iam::" \o account_id \o ":role/OrganizationAccountAccessRole\"\n"

\* block is the provider block of the claim for this region and account
IsProviderFor(block, region, account_name, account_id) ==
    /\ Len(block) >= 3
    /\ block[1] = "provider \"aws\" {\n"
    /\ block[Len(block)] = "}\n"
    /\ block[Len(block) - 1] = RegionPiece(region)
    /\ IF account_name = "Management"
       THEN Len(block) = 3
       ELSE /\ Len(block) = 7
            /\ block[2] = "  assume_role {\n"
            /\ block[3] = RoleArnPiece(account_id)
            /\ block[4] = "  }\n"
            /\ block[5] = AliasPiece(region, Lower(account_name))

\* C11: create_provider_code emits exactly one provider block per (region,
\* account) pair: for the account named "Management" a bare block with the
\* region only, for any other account a block that assumes
\* OrganizationAccountAccessRole on the account's id, with the alias
\* "<region>-<lowercased name>" and the region; and the text it returns is
\* the text it hands to the file sink for terraform/provider.tf.
C11_ProviderBlocks ==
    gop = "create_provider_code"
        => LET blocks == Blocks(gout.text)
               regions == gargs.regions
               accounts == gargs.accounts
           IN  /\ Len(blocks) = Len(regions) * Len(accounts)
               /\ \A i \in 1..Len(regions), j \in 1..Len(accounts) :
                     Cardinality({k \in 1..Len(blocks) :
                         IsProviderFor(blocks[k], regions[i],
                                       accounts[j][1], accounts[j][2])}) = 1
               /\ Len(gout.written) = 1
               /\ gout.written[1].file = "terraform/provider.tf"
               /\ gout.written[1].content = gout.text

C11_Witness ==
    /\ gop = "create_provider_code"
    /\ Len(gargs.regions) = 2
    /\ Len(gargs.accounts) = 2
    /\ DictHas(gargs.accounts, "Management")
    /\ DictHas(gargs.accounts, "TestWorkload")
    /\ Len(Blocks(gout.text)) = 4
    /\ Has(gout.text, AliasPiece("us-east-1", "testworkload"))

ModuleHeader(module_name, region, account_name) ==
    "module \"" \o module_name \o "-" \o region \o "-" \o account_name \o "\" {\n"

\* block holds exactly one depends_on list, naming the dependencies in
\* order with the region; or none when there are no dependencies
DependsOnIn(block, dependencies, region) ==
    LET opens == {p \in 1..Len(block) : block[p] = "  depends_on = [ "}
        n == Len(dependencies)
    IN  IF n = 0 THEN opens = {}
        ELSE /\ Cardinality(opens) = 1
             /\ \A p \in opens :
                  /\ p + 2 * n <= Len(block)
                  /\ \A d \in 1..n :
                        block[p + 2 * d - 1] = "module." \o dependencies[d] \o "-" \o region
                  /\ \A d \in 1..(n - 1) : block[p + 2 * d] = ", "
                  /\ block[p + 2 * n] = " ]\n"

\* C13: every block create_module_code emits for a module with dependencies
\* holds exactly one depends_on list that names, for each dependency in the
\* declared order, "module.<dependency>-<region>" with the region of the
\* block; a module without dependencies gets no depends_on line.
C13_DependsOn ==
    (gop = "create_module_code" /\ ~gout.raised)
        => LET blocks == Blocks(gout.text)
           IN  /\ Len(blocks) = Len(gargs.regions) * Len(gargs.accounts)
               /\ \A k \in 1..Len(blocks) :
                    \E i \in 1..Len(gargs.regions), j \in 1..Len(gargs.accounts) :
                       /\ blocks[k][1] = ModuleHeader(gargs.module_name, gargs.regions[i],
                                                      Lower(gargs.accounts[j][1]))
                       /\ DependsOnIn(blocks[k], gargs.dependencies, gargs.regions[i])

C13_Witness ==
    /\ gop = "create_module_code"
    /\ ~gout.raised
    /\ gargs.dependencies = <<"moduleC", "moduleA">>
    /\ Len(gargs.regions) = 2
    /\ Len(gargs.accounts) = 2
    /\ Has(gout.text, "module.moduleC-us-east-1")
    /\ Has(gout.text, " ]\n")

AllScalar(value) ==
    /\ value.kind = "list"
    /\ \A i \in 1..Len(value.items) : value.items[i].kind \in {"str", "bool", "int"}

RECURSIVE HoldsUnsupported(_)
\* value is, or holds at some depth, a value that is not a str, bool, int,
\* list or dict
HoldsUnsupported(value) ==
    \/ value.kind \notin {"str", "bool", "int", "list", "dict"}
    \/ \E i \in 1..Len(value.items) : HoldsUnsupported(value.items[i])

\* str() of a scalar as it appears in a rendered list
ScalarText(value) ==
    IF value.kind = "str"
    THEN (IF value.s = "module.vpc.id" THEN value.s ELSE "\"" \o value.s \o "\"")
    ELSE IF value.kind = "bool" THEN (IF value.s = "True" THEN "true" ELSE "false")
    ELSE value.s

\* C14: format_value renders every list of strings, booleans and integers,
\* in any mix, as "[v1, v2, ...]" on one line and does not fault on it; it
\* faults only on a value that is, or holds, something other than a str,
\* bool, int, list or dict.
C14_ScalarListsRender ==
    gop = "format_value"
        => /\ AllScalar(gargs.value)
                => /\ ~gout.raised
                   /\ gout.text = <<"[" \o Join(", ", [i \in 1..Len(gargs.value.items) |->
                                                   ScalarText(gargs.value.items[i])])
                                        \o "]">>
           /\ gout.raised => HoldsUnsupported(gargs.value)

\* ------------------------------------------------- properties of the artifacts
ProvidersPiece(region, account_name) ==
    "  providers = {\n    aws = aws." \o region \o "-" \o account_name \o "\n    }\n"

\* the names under which accounts occur
OrgAccountNames == {"Management", "management", "Audit", "TestWorkload"}

\* block holds no providers reference at all
NoProviders(block) ==
    \A region \in Regions, name \in OrgAccountNames :
        ~Has(block, ProvidersPiece(region, Lower(name)))

\* C12: a completed module pass wrote one module block per (region,
\* account) of the resolved accounts, named
\* "<module>-<region>-<lowercased account name>"; the block holds no
\* providers reference exactly when the account is the management account,
\* the one given the bare provider block, and otherwise references the
\* alias "<region>-<lowercased name>", which the provider file written in
\* the same pass declares.
C12_ProvidersDeclared ==
    (pc = "iterated" /\ Len(sink) = 2)
        => LET provider == sink[1].content
               blocks == Blocks(sink[2].content)
               regions == tf_module.regions
               accounts == deployment_target_accounts
           IN  /\ sink[1].file = "terraform/provider.tf"
               /\ sink[2].file = "terraform/" \o tf_module.name \o ".tf"
               /\ Len(blocks) = Len(regions) * Len(accounts)
               /\ \A i \in 1..Len(regions), j \in 1..Len(accounts) :
                    LET name == Lower(accounts[j][1])
                        mine == {k \in 1..Len(blocks) :
                                    blocks[k][1] = ModuleHeader(tf_module.name,
                                                                regions[i], name)}
                    IN  /\ Cardinality(mine) = 1
                        /\ \A k \in mine :
                             /\ NoProviders(blocks[k]) <=> accounts[j][1] = "Management"
                             /\ ~NoProviders(blocks[k])
                                   => /\ Has(blocks[k], ProvidersPiece(regions[i], name))
                                      /\ Has(provider, AliasPiece(regions[i], name))

BackendThenProviderThenMain ==
    <<"terraform/backend.tf", "terraform/provider.tf", "terraform/main.tf">>

\* C15: a run with no modules writes the backend file, then a provider file
\* with a block for every account of the organization in every available
\* region, then the empty main file, and never enters per-module
\* resolution: the account tree is not built and no other file is written.
C15_NoModulesRun ==
    all_modules = <<>>
        => /\ pc \in {"main", "branch", "done"}
           /\ pass = 0
           /\ tf_module = NoModule
           /\ ou_with_all_accounts = <<>>
           /\ Len(log) <= 3
           /\ \A i \in 1..Len(log) : log[i].file = BackendThenProviderThenMain[i]
           /\ pc = "done"
                => /\ Len(sink) = 3
                   /\ \A i \in 1..3 : sink[i].file = BackendThenProviderThenMain[i]
                   /\ sink[3].content = <<>>
                   /\ outcome = "completed"
                   /\ LET blocks == Blocks(sink[2].content)
                      IN  \A r \in 1..Len(available_regions),
                             a \in 1..Len(directory.accts) :
                              \E k \in 1..Len(blocks) :
                                 IsProviderFor(blocks[k], available_regions[r],
                                               directory.accts[a].Name,
                                               directory.accts[a].Id)

====
